---- MODULE Spec2Model ----
(***************************************************************************)
(* Model of baram.SagemakerManager (src/baram/sagemaker_manager.py): the   *)
(* teardown of a user profile (delete_user_profile) and the bulk replace   *)
(* (recreate_all_user_profiles), run by one thread against a SageMaker     *)
(* control plane whose resources change state asynchronously.              *)
(*                                                                         *)
(* Profiles are named 1..NumProfiles, the apps of the profile under        *)
(* teardown 1..NumApps.  The control plane's answers are read from the     *)
(* remote state (profStatus, profRole, appStatus); errors that do not      *)
(* depend on it (ResourceInUse, AccessDenied, ResourceLimitExceeded) are   *)
(* chosen nondeterministically.                                            *)
(*                                                                         *)
(* A second, separate use is modelled from baram.EC2Manager                *)
(* (src/baram/ec2_manager.py): delete_unused_key_pairs, applied to every   *)
(* answer of describe_key_pairs and describe_instances up to the bounds    *)
(* (KeyPairSpec).                                                          *)
(***************************************************************************)
EXTENDS Integers, Sequences, FiniteSets, TLC

\* ------------------------------------------------------------------ bounds
NumProfiles == 2    \* profiles of the domain
NumApps     == 2    \* apps list_apps may return for one profile
MaxCalls    == 2    \* delete_user_profile calls the user makes in a row
MaxTicks    == 1    \* elapsed_secs is tracked up to SleepSecs * MaxTicks
NumKeys         == 2    \* key pair names
MaxReservations == 2    \* reservations in a describe_instances answer
MaxInstances    == 2    \* instances of one reservation

\* time.sleep(5); elapsed_secs += 5
SleepSecs == 5

Profiles == 1 .. NumProfiles
AppIds   == 1 .. NumApps

\* ------------------------------------------------------- remote data model
\* Status values of an app as describe_app reports them.  The code compares
\* only against Deleted, Deleting and Failed; InService stands for every other
\* value (Pending, Creating).
AppStatuses      == {"InService", "Deleting", "Deleted", "Failed"}
TerminalStatuses == {"Deleted", "Failed"}

RoleOf(p) == <<"role", p>>
NoRole    == <<"role", 0>>

NoRet == [kind |-> "none", exc |-> "none", site |-> "none"]

VARIABLES
    \* the control plane
    profStatus,      \* profile -> Absent | InService | Deleting
    profRole,        \* profile -> UserSettings.ExecutionRole
    appStatus,       \* app of the profile under teardown -> status | Absent
    \* the caller
    top,             \* idle | delete | recreate | over: what the manager runs
    calls,           \* delete_user_profile calls the user has made so far
    \* recreate_all_user_profiles
    rpc,             \* its position
    listing,         \* names returned by list_user_profiles() at line 210
    user_profiles,   \* the snapshot: describe_user_profile answers
    idx,             \* position in listing (snapshot) or user_profiles (loop)
    \* delete_user_profile
    dpc,             \* its position
    name,            \* user_profile_name
    apps,            \* list_apps answer
    k,               \* position of the for loops in apps
    delete_cnt,
    elapsed_secs,
    ret,             \* how the call ended: return site or exception raised
    \* history of the requests sent to the control plane
    obs,             \* app -> last status describe_app answered in this call
    issued,          \* client operations requested in this call
    parentDeletes,   \* cli.delete_user_profile requests in this call
    entryStatus,     \* profile status seen by line 64 of this call
    lastDeleteApp,   \* answer of cli.delete_app that delete_app has just returned from
    target,          \* the profile the user's delete_user_profile calls name
    prevAbsent,      \* the user's previous delete_user_profile call returned at
                     \* line 67
    attempted,       \* names recreate_all has called delete_user_profile for
    tornDown,        \* names whose teardown in this batch ended with the parent gone
    created,         \* create_user_profile requests of this batch
    \* EC2Manager.delete_unused_key_pairs
    kpc,             \* its position
    keyPairs,        \* the key pairs of the account (describe_key_pairs)
    reservations,    \* describe_instances()['Reservations']
    key_pairs_redundant,
    pendingKeys,     \* what the for loop of line 38 has still to visit
    deletedKeys      \* key pairs whose delete_key_pair was accepted

remote  == <<profStatus, profRole, appStatus>>
caller  == <<top, calls>>
rvars   == <<rpc, listing, user_profiles, idx>>
dlocals == <<name, apps, k, delete_cnt, elapsed_secs>>
dhist   == <<obs, issued, parentDeletes, entryStatus>>
bhist   == <<attempted, tornDown, created>>
ec2vars == <<kpc, keyPairs, reservations, key_pairs_redundant, pendingKeys,
             deletedKeys>>
svars   == <<profStatus, profRole, appStatus, top, calls, rpc, listing,
             user_profiles, idx, dpc, name, apps, k, delete_cnt, elapsed_secs,
             ret, obs, issued, parentDeletes, entryStatus, lastDeleteApp,
             target, prevAbsent, attempted, tornDown, created>>
vars    == <<svars, ec2vars>>

NoApps == [a \in AppIds |-> "Absent"]
NoObs  == [a \in AppIds |-> "none"]

\* SagemakerManager() is constructed: nothing is in progress.
SagemakerInit ==
    /\ profStatus = [p \in Profiles |-> "InService"]
    /\ profRole = [p \in Profiles |-> RoleOf(p)]
    /\ appStatus = NoApps
    /\ top = "idle"
    /\ calls = 0
    /\ rpc = "none"
    /\ listing = <<>>
    /\ user_profiles = <<>>
    /\ idx = 0
    /\ dpc = "none"
    /\ name = 0
    /\ apps = <<>>
    /\ k = 0
    /\ delete_cnt = 0
    /\ elapsed_secs = 0
    /\ ret = NoRet
    /\ obs = NoObs
    /\ issued = {}
    /\ parentDeletes = 0
    /\ entryStatus = "none"
    /\ lastDeleteApp = "none"
    /\ target = 0
    /\ prevAbsent = FALSE
    /\ attempted = {}
    /\ tornDown = {}
    /\ created = <<>>

\* No EC2Manager call is made.
NoKeyPairCall ==
    /\ kpc = "none"
    /\ keyPairs = {}
    /\ reservations = <<>>
    /\ key_pairs_redundant = {}
    /\ pendingKeys = {}
    /\ deletedKeys = {}

Init == SagemakerInit /\ NoKeyPairCall

\* A frame of delete_user_profile(p) starts: its locals and the record of what
\* it requested are fresh.
EnterDelete(p) ==
    /\ dpc' = "describe_user_profile"
    /\ name' = p
    /\ apps' = <<>>
    /\ k' = 0
    /\ delete_cnt' = 0
    /\ elapsed_secs' = 0
    /\ ret' = NoRet
    /\ obs' = NoObs
    /\ issued' = {}
    /\ parentDeletes' = 0
    /\ entryStatus' = "none"
    /\ lastDeleteApp' = "none"
    /\ appStatus' = NoApps

\* The frame is left: its locals go out of scope.
LeaveDelete ==
    /\ dpc' = "none"
    /\ name' = 0
    /\ apps' = <<>>
    /\ k' = 0
    /\ delete_cnt' = 0
    /\ elapsed_secs' = 0
    /\ ret' = NoRet
    /\ obs' = NoObs
    /\ issued' = {}
    /\ parentDeletes' = 0
    /\ entryStatus' = "none"
    /\ lastDeleteApp' = "none"
    /\ appStatus' = NoApps

\* ------------------------------------------------------ delete_user_profile
Return(kind, site) ==
    /\ dpc' = "returned"
    /\ ret' = [kind |-> kind, exc |-> "none", site |-> site]

Raise(exc, site) ==
    /\ dpc' = "raised"
    /\ ret' = [kind |-> "raised", exc |-> exc, site |-> site]

\* Variant: the handler of line 65 without its return.
AfterMissingProfile_fallthrough == "list_apps"

\* line 67: the position after `except ResourceNotFound` of line 65.
AfterMissingProfile == "returned"

\* lines 63-67: self.describe_user_profile(user_profile_name), ResourceNotFound
\* caught: log and return.
DescribeUserProfile ==
    /\ UNCHANGED ec2vars
    /\ dpc = "describe_user_profile"
    /\ issued' = issued \cup {"describe_user_profile"}
    /\ entryStatus' = profStatus[name]
    /\ IF profStatus[name] = "Absent"
          THEN /\ dpc' = AfterMissingProfile
               /\ ret' = IF AfterMissingProfile = "returned"
                            THEN [kind |-> "absent", exc |-> "none", site |-> "line67"]
                            ELSE ret
          ELSE /\ dpc' = "list_apps"
               /\ ret' = ret
    /\ UNCHANGED <<remote, caller, rvars, dlocals, obs, parentDeletes,
                   lastDeleteApp, target, prevAbsent, bhist>>

\* line 70: apps = self.list_apps(UserProfileNameEquals=user_profile_name).
\* The directory's answer for this profile: n apps, newest first, each in one
\* of the statuses an app can be listed with.
ListApps ==
    /\ UNCHANGED ec2vars
    /\ dpc = "list_apps"
    /\ \E n \in 0 .. NumApps :
         \E st \in [1 .. n -> AppStatuses] :
            /\ appStatus' = [a \in AppIds |-> IF a <= n THEN st[a] ELSE "Absent"]
            /\ apps' = [i \in 1 .. n |-> i]
            /\ k' = IF n = 0 THEN 0 ELSE 1
            /\ dpc' = IF n = 0 THEN "poll_check" ELSE "req_describe"
    /\ issued' = issued \cup {"list_apps"}
    /\ UNCHANGED <<profStatus, profRole, caller, rvars, name, delete_cnt,
                   elapsed_secs, ret, obs, parentDeletes, entryStatus,
                   lastDeleteApp, target, prevAbsent, bhist>>

\* Variant: only a Deleted app is skipped.
NeedsDeleteRequest_onlyDeleted(status) == status # "Deleted"

\* line 74: response['Status'] != 'Deleted' and response['Status'] != 'Deleting'
NeedsDeleteRequest(status) == status # "Deleted" /\ status # "Deleting"

\* line 71: the for loop moves to the next app, or ends (lines 81-83).
NextRequest ==
    IF k < Len(apps)
       THEN /\ k' = k + 1
            /\ dpc' = "req_describe"
       ELSE /\ k' = 0
            /\ dpc' = "poll_check"

\* lines 72-74, 76-80: describe_app of apps[k] in the request loop.
\* ResourceNotFound: pass.  ResourceInUse: log and return.
ReqDescribeApp ==
    /\ UNCHANGED ec2vars
    /\ dpc = "req_describe"
    /\ issued' = issued \cup {"describe_app"}
    /\ \/ /\ Return("inuse", "line80")
          /\ UNCHANGED <<k, obs>>
       \/ /\ ret' = ret
          /\ IF appStatus[apps[k]] = "Absent"
                THEN /\ NextRequest
                     /\ obs' = [obs EXCEPT ![apps[k]] = "NotFound"]
                ELSE /\ obs' = [obs EXCEPT ![apps[k]] = appStatus[apps[k]]]
                     /\ IF NeedsDeleteRequest(appStatus[apps[k]])
                           THEN /\ dpc' = "req_delete"
                                /\ k' = k
                           ELSE NextRequest
    /\ lastDeleteApp' = "none"
    /\ UNCHANGED <<remote, caller, rvars, name, apps, delete_cnt, elapsed_secs,
                   parentDeletes, entryStatus, target, prevAbsent, bhist>>

\* What cli.delete_app answers for an app in status s: accepted, the app is
\* gone, the app is already being deleted, or the request is refused.
CliDeleteAppAnswers(s) ==
    CASE s \in {"InService", "Failed"} -> {"ok", "AccessDenied"}
      [] s = "Deleting"               -> {"ResourceInUse", "AccessDenied"}
      [] OTHER                        -> {"ResourceNotFound", "AccessDenied"}

\* Variant: delete_app swallows only the answers that say the app is gone or
\* already going, and lets every other failure of the client out.
DeleteAppRaises_refusals(answer) ==
    answer \notin {"ok", "ResourceNotFound", "ResourceInUse"}

\* lines 34-41: delete_app returns the response, and `except: return None`
\* returns for every exception: no answer of the client makes it raise.
DeleteAppRaises(answer) == FALSE

\* line 75 (and 33-41): self.delete_app(...) for apps[k].
ReqDeleteApp ==
    /\ UNCHANGED ec2vars
    /\ dpc = "req_delete"
    /\ issued' = issued \cup {"delete_app"}
    /\ \E answer \in CliDeleteAppAnswers(appStatus[apps[k]]) :
         /\ appStatus' = IF answer = "ok"
                            THEN [appStatus EXCEPT ![apps[k]] = "Deleting"]
                            ELSE appStatus
         /\ IF DeleteAppRaises(answer)
               THEN /\ lastDeleteApp' = "none"
                    /\ CASE answer = "ResourceNotFound" -> NextRequest /\ ret' = ret
                         [] answer = "ResourceInUse" ->
                               Return("inuse", "line80") /\ k' = k
                         [] OTHER -> Raise(answer, "delete_app") /\ k' = k
               ELSE /\ lastDeleteApp' = answer
                    /\ NextRequest
                    /\ ret' = ret
    /\ UNCHANGED <<profStatus, profRole, caller, rvars, name, apps, delete_cnt,
                   elapsed_secs, obs, parentDeletes, entryStatus, target, prevAbsent, bhist>>

\* Variant: the loop ends one app short.
LoopCondition_offByOne == delete_cnt < Len(apps) - 1

\* line 84: while delete_cnt < len(apps)
LoopCondition == delete_cnt < Len(apps)

\* lines 84-85: the loop test; entering the body resets delete_cnt.
PollCheck ==
    /\ UNCHANGED ec2vars
    /\ dpc = "poll_check"
    /\ IF LoopCondition
          THEN /\ delete_cnt' = 0
               /\ k' = 1
               /\ dpc' = "poll_describe"
          ELSE /\ delete_cnt' = delete_cnt
               /\ k' = 0
               /\ dpc' = "parent_delete"
    /\ UNCHANGED <<remote, caller, rvars, name, apps, elapsed_secs, ret, dhist,
                   target, prevAbsent, bhist>>
    /\ lastDeleteApp' = "none"

\* Variant: only Deleted is counted.
PollCounts_onlyDeleted(status) == status = "Deleted"

\* line 89: response['Status'] == 'Deleted' or response['Status'] == 'Failed'
PollCounts(status) == status = "Deleted" \/ status = "Failed"

\* Variant: from the second tick on, an app already observed as Deleted or
\* Failed is counted without a describe_app.
PollDescribeApp_skipTerminal ==
    /\ UNCHANGED ec2vars
    /\ dpc = "poll_describe"
    /\ IF elapsed_secs >= SleepSecs /\ obs[apps[k]] \in TerminalStatuses
          THEN /\ delete_cnt' = delete_cnt + 1
               /\ IF k < Len(apps)
                     THEN k' = k + 1 /\ dpc' = "poll_describe"
                     ELSE k' = 0 /\ dpc' = "sleep"
               /\ UNCHANGED <<obs, issued, ret>>
          ELSE /\ issued' = issued \cup {"poll_describe_app"}
               /\ IF appStatus[apps[k]] = "Absent"
                     THEN /\ Raise("ResourceNotFound", "describe_app")
                          /\ obs' = [obs EXCEPT ![apps[k]] = "NotFound"]
                          /\ UNCHANGED <<k, delete_cnt>>
                     ELSE /\ obs' = [obs EXCEPT ![apps[k]] = appStatus[apps[k]]]
                          /\ delete_cnt' = IF PollCounts(appStatus[apps[k]])
                                              THEN delete_cnt + 1 ELSE delete_cnt
                          /\ IF k < Len(apps)
                                THEN k' = k + 1 /\ dpc' = "poll_describe"
                                ELSE k' = 0 /\ dpc' = "sleep"
                          /\ ret' = ret
    /\ UNCHANGED <<remote, caller, rvars, name, apps, elapsed_secs,
                   parentDeletes, entryStatus, lastDeleteApp, target, prevAbsent, bhist>>

\* lines 86-90: describe_app of apps[k] in the polling loop; no handler, so
\* the client's ResourceNotFound leaves delete_user_profile.
PollDescribeApp ==
    /\ UNCHANGED ec2vars
    /\ dpc = "poll_describe"
    /\ issued' = issued \cup {"poll_describe_app"}
    /\ IF appStatus[apps[k]] = "Absent"
          THEN /\ Raise("ResourceNotFound", "describe_app")
               /\ obs' = [obs EXCEPT ![apps[k]] = "NotFound"]
               /\ UNCHANGED <<k, delete_cnt>>
          ELSE /\ obs' = [obs EXCEPT ![apps[k]] = appStatus[apps[k]]]
               /\ delete_cnt' = IF PollCounts(appStatus[apps[k]])
                                   THEN delete_cnt + 1 ELSE delete_cnt
               /\ IF k < Len(apps)
                     THEN k' = k + 1 /\ dpc' = "poll_describe"
                     ELSE k' = 0 /\ dpc' = "sleep"
               /\ ret' = ret
    /\ UNCHANGED <<remote, caller, rvars, name, apps, elapsed_secs,
                   parentDeletes, entryStatus, lastDeleteApp, target, prevAbsent, bhist>>

\* Variant: after the sleep the delete requests are issued again, the polling
\* loop enclosing the request loop.
Sleep_rerequest ==
    /\ UNCHANGED ec2vars
    /\ dpc = "sleep"
    /\ elapsed_secs' = IF elapsed_secs + SleepSecs <= SleepSecs * MaxTicks
                          THEN elapsed_secs + SleepSecs ELSE elapsed_secs
    /\ dpc' = "req_describe"
    /\ k' = 1
    /\ UNCHANGED <<remote, caller, rvars, name, apps, delete_cnt, ret, dhist,
                   lastDeleteApp, target, prevAbsent, bhist>>

\* lines 91-93: time.sleep(5); elapsed_secs += 5 (a Python int: kept up to
\* SleepSecs * MaxTicks here, it is only logged).
Sleep ==
    /\ UNCHANGED ec2vars
    /\ dpc = "sleep"
    /\ elapsed_secs' = IF elapsed_secs + SleepSecs <= SleepSecs * MaxTicks
                          THEN elapsed_secs + SleepSecs ELSE elapsed_secs
    /\ dpc' = "poll_check"
    /\ UNCHANGED <<remote, caller, rvars, name, apps, k, delete_cnt, ret, dhist,
                   lastDeleteApp, target, prevAbsent, bhist>>

\* line 94: return self.cli.delete_user_profile(...); no handler.  The control
\* plane starts deleting an InService profile, answers ResourceNotFound for a
\* profile that is gone and ResourceInUse for one already being deleted.
ParentDelete ==
    /\ UNCHANGED ec2vars
    /\ dpc = "parent_delete"
    /\ issued' = issued \cup {"delete_user_profile"}
    /\ parentDeletes' = parentDeletes + 1
    /\ CASE profStatus[name] = "InService" ->
                /\ profStatus' = [profStatus EXCEPT ![name] = "Deleting"]
                /\ Return("deleted", "line94")
         [] profStatus[name] = "Deleting" ->
                /\ profStatus' = profStatus
                /\ Raise("ResourceInUse", "delete_user_profile")
         [] OTHER ->
                /\ profStatus' = profStatus
                /\ Raise("ResourceNotFound", "delete_user_profile")
    /\ UNCHANGED <<profRole, appStatus, caller, rvars, dlocals, obs, entryStatus,
                   lastDeleteApp, target, prevAbsent, bhist>>

DeleteStep ==
    \/ DescribeUserProfile
    \/ ListApps
    \/ ReqDescribeApp
    \/ ReqDeleteApp
    \/ PollCheck
    \/ PollDescribeApp
    \/ Sleep
    \/ ParentDelete

\* ----------------------------------------------- recreate_all_user_profiles
\* Python values that `in` compares: a profile name is a str, an entry of
\* response['UserProfiles'] a dict.
PyStr(n) == [type |-> "str", val |-> n]
PyProfileSummary(p) ==
    [type |-> "dict", UserProfileName |-> p, Status |-> profStatus[p]]

\* Python's ==: values of different types are unequal.
PyEq(a, b) == a.type = b.type /\ a = b

\* Python's `x in lst`
PyIn(x, lst) == \E i \in DOMAIN lst : PyEq(x, lst[i])

\* lines 14-18: list_user_profiles(): response['UserProfiles'], one dict per
\* profile the domain holds.
ListUserProfiles ==
    LET present == SelectSeq([p \in Profiles |-> p],
                             LAMBDA p : profStatus[p] # "Absent")
    IN  [i \in DOMAIN present |-> PyProfileSummary(present[i])]

\* line 210: for x in self.list_user_profiles()
RecreateList ==
    /\ UNCHANGED ec2vars
    /\ top = "recreate"
    /\ rpc = "list"
    /\ listing' = ListUserProfiles
    /\ user_profiles' = <<>>
    /\ idx' = 1
    /\ rpc' = "snapshot"
    /\ UNCHANGED <<remote, caller, dpc, dlocals, ret, dhist,
                   lastDeleteApp, target, prevAbsent, bhist>>

\* line 209: describe_user_profile(x['UserProfileName']) for the next listed
\* profile; the comprehension ends after the last one (lines 211, 213).
RecreateDescribe ==
    /\ UNCHANGED ec2vars
    /\ top = "recreate"
    /\ rpc = "snapshot"
    /\ IF idx > Len(listing)
          THEN /\ rpc' = "loop"
               /\ idx' = 1
               /\ user_profiles' = user_profiles
          ELSE IF profStatus[listing[idx].UserProfileName] = "Absent"
          THEN /\ rpc' = "raised"
               /\ idx' = idx
               /\ user_profiles' = user_profiles
          ELSE /\ rpc' = "snapshot"
               /\ idx' = idx + 1
               /\ user_profiles' = Append(user_profiles,
                     [UserProfileName |-> listing[idx].UserProfileName,
                      ExecutionRole |-> profRole[listing[idx].UserProfileName]])
    /\ UNCHANGED <<remote, caller, listing, dpc, dlocals, ret, dhist,
                   lastDeleteApp, target, prevAbsent, bhist>>

\* lines 213-215: the next profile of the snapshot: delete_user_profile is
\* called for it.
RecreateCallDelete ==
    /\ UNCHANGED ec2vars
    /\ top = "recreate"
    /\ rpc = "loop"
    /\ idx <= Len(user_profiles)
    /\ EnterDelete(user_profiles[idx].UserProfileName)
    /\ rpc' = "in_delete"
    /\ attempted' = attempted \cup {user_profiles[idx].UserProfileName}
    /\ UNCHANGED <<profStatus, profRole, caller, listing, user_profiles, idx,
                   target, prevAbsent, tornDown, created>>

\* line 215: delete_user_profile is left, by a return or by an exception,
\* which recreate_all_user_profiles does not handle.
RecreateAfterDelete ==
    /\ UNCHANGED ec2vars
    /\ top = "recreate"
    /\ rpc = "in_delete"
    /\ dpc \in {"returned", "raised"}
    /\ rpc' = IF dpc = "raised" THEN "raised" ELSE "wait"
    /\ tornDown' = IF ret.kind \in {"deleted", "absent"}
                      THEN tornDown \cup {name} ELSE tornDown
    /\ LeaveDelete
    /\ UNCHANGED <<profStatus, profRole, caller, listing, user_profiles, idx,
                   target, prevAbsent, attempted, created>>

\* lines 216-220: while i['UserProfileName'] in self.list_user_profiles():
\* sleep; else: sleep once and go on to the create.
RecreateWait ==
    /\ UNCHANGED ec2vars
    /\ top = "recreate"
    /\ rpc = "wait"
    /\ rpc' = IF PyIn(PyStr(user_profiles[idx].UserProfileName), ListUserProfiles)
                 THEN "wait" ELSE "create"
    /\ UNCHANGED <<remote, caller, listing, user_profiles, idx, dpc, dlocals,
                   ret, dhist,
                   lastDeleteApp, target, prevAbsent, bhist>>

\* line 221: user_profile_name=i['UserProfileName']
CreateName(i) == user_profiles[i].UserProfileName

\* Variant: the role is read from the profile at create time.
CreateRole_reread(i) == profRole[user_profiles[i].UserProfileName]

\* line 222: execution_role=i['UserSettings']['ExecutionRole']
CreateRole(i) == user_profiles[i].ExecutionRole

\* What cli.create_user_profile answers: a profile of that name is still there,
\* or the request is accepted or refused (quota).
CliCreateAnswers(p) ==
    IF profStatus[p] # "Absent"
       THEN {"ResourceInUse"}
       ELSE {"ok", "ResourceLimitExceeded"}

\* lines 221-223 (and 50-60): create_user_profile; an exception of the client
\* is not handled.
RecreateCreate ==
    /\ UNCHANGED ec2vars
    /\ top = "recreate"
    /\ rpc = "create"
    /\ created' = Append(created, [UserProfileName |-> CreateName(idx),
                                   ExecutionRole |-> CreateRole(idx)])
    /\ \E answer \in CliCreateAnswers(CreateName(idx)) :
         IF answer = "ok"
            THEN /\ profStatus' = [profStatus EXCEPT ![CreateName(idx)] = "InService"]
                 /\ profRole' = [profRole EXCEPT ![CreateName(idx)] = CreateRole(idx)]
                 /\ idx' = idx + 1
                 /\ rpc' = "loop"
            ELSE /\ UNCHANGED <<profStatus, profRole, idx>>
                 /\ rpc' = "raised"
    /\ UNCHANGED <<appStatus, caller, listing, user_profiles, dpc, dlocals, ret,
                   dhist, lastDeleteApp, target, prevAbsent, attempted, tornDown>>

\* line 213: the for loop is exhausted.
RecreateFinish ==
    /\ UNCHANGED ec2vars
    /\ top = "recreate"
    /\ rpc = "loop"
    /\ idx > Len(user_profiles)
    /\ rpc' = "done"
    /\ UNCHANGED <<remote, caller, listing, user_profiles, idx, dpc, dlocals,
                   ret, dhist,
                   lastDeleteApp, target, prevAbsent, bhist>>

RecreateStep ==
    \/ RecreateList
    \/ RecreateDescribe
    \/ RecreateCallDelete
    \/ RecreateAfterDelete
    \/ RecreateWait
    \/ RecreateCreate
    \/ RecreateFinish

\* ------------------------------------------------------------------- caller
\* One use of the manager: the user calls delete_user_profile, up to MaxCalls
\* times, or calls recreate_all_user_profiles once.
\* The manager's user calls delete_user_profile(p): for any profile the first
\* time, for the same profile again afterwards.
CallDeleteUserProfile ==
    /\ UNCHANGED ec2vars
    /\ top = "idle"
    /\ calls < MaxCalls
    /\ \E p \in Profiles :
         /\ target \in {0, p}
         /\ target' = p
         /\ EnterDelete(p)
    /\ top' = "delete"
    /\ calls' = calls + 1
    /\ UNCHANGED <<profStatus, profRole, rvars, prevAbsent, bhist>>

\* The call is over: the user has its result or its exception.
ReturnDeleteUserProfile ==
    /\ UNCHANGED ec2vars
    /\ top = "delete"
    /\ dpc \in {"returned", "raised"}
    /\ prevAbsent' = (ret.kind = "absent")
    /\ LeaveDelete
    /\ top' = "idle"
    /\ UNCHANGED <<profStatus, profRole, calls, rvars, target, bhist>>

\* The manager's user calls recreate_all_user_profiles().
CallRecreate ==
    /\ UNCHANGED ec2vars
    /\ top = "idle"
    /\ calls = 0
    /\ top' = "recreate"
    /\ calls' = calls
    /\ rpc' = "list"
    /\ attempted' = {}
    /\ tornDown' = {}
    /\ created' = <<>>
    /\ UNCHANGED <<remote, listing, user_profiles, idx, dpc, dlocals, ret, dhist,
                   lastDeleteApp, target, prevAbsent>>

\* recreate_all_user_profiles is over.
ReturnRecreate ==
    /\ UNCHANGED ec2vars
    /\ top = "recreate"
    /\ rpc \in {"done", "raised"}
    /\ top' = "over"
    /\ rpc' = "none"
    /\ listing' = <<>>
    /\ user_profiles' = <<>>
    /\ idx' = 0
    /\ attempted' = {}
    /\ tornDown' = {}
    /\ created' = <<>>
    /\ UNCHANGED <<remote, calls, dpc, dlocals, ret, dhist, lastDeleteApp, target, prevAbsent>>

CallerStep ==
    \/ CallDeleteUserProfile
    \/ ReturnDeleteUserProfile
    \/ CallRecreate
    \/ ReturnRecreate

\* ------------------------------------------------------------ control plane
\* The app whose state the manager's next statement reads: apps[k] of the
\* describe_app and delete_app calls of lines 73, 75 and 87.
ReadsApp(a) ==
    /\ dpc \in {"req_describe", "req_delete", "poll_describe"}
    /\ a = apps[k]

\* An app moves on by itself: it starts being deleted or fails, a deletion
\* completes or fails, a deleted app leaves the directory.  A terminal status
\* is not left for a non-terminal one.  A step on an app is taken when the
\* manager is about to read that app: taken earlier it changes no answer the
\* manager gets.
AppSuccessors(s) ==
    CASE s = "InService" -> {"Deleting", "Failed"}
      [] s = "Deleting"  -> {"Deleted", "Failed"}
      [] s = "Deleted"   -> {"Absent"}
      [] OTHER           -> {}

EnvApp ==
    /\ UNCHANGED ec2vars
    /\ \E a \in AppIds :
         /\ ReadsApp(a)
         /\ \E s \in AppSuccessors(appStatus[a]) :
               appStatus' = [appStatus EXCEPT ![a] = s]
    /\ UNCHANGED <<profStatus, profRole, caller, rvars, dpc, dlocals, ret, dhist,
                   lastDeleteApp, target, prevAbsent, bhist>>

\* The profiles whose state the manager's next statement reads.
ReadsProfile(p) ==
    \/ dpc \in {"describe_user_profile", "parent_delete"} /\ p = name
    \/ rpc \in {"list", "wait"}
    \/ rpc = "snapshot" /\ idx <= Len(listing) /\ p = listing[idx].UserProfileName
    \/ rpc = "create" /\ p = user_profiles[idx].UserProfileName

\* Another worker deletes a profile whose apps are terminal, and the control
\* plane completes the deletion of a profile.  A step on a profile is taken
\* when the manager is about to read that profile: taken earlier it changes
\* no answer the manager gets.
EnvProfile ==
    /\ UNCHANGED ec2vars
    /\ \E p \in Profiles :
         /\ ReadsProfile(p)
         /\ \/ /\ profStatus[p] = "InService"
               /\ p = name => \A a \in AppIds :
                                 appStatus[a] \in TerminalStatuses \cup {"Absent"}
               /\ profStatus' = [profStatus EXCEPT ![p] = "Deleting"]
               /\ profRole' = profRole
            \/ /\ profStatus[p] = "Deleting"
               /\ profStatus' = [profStatus EXCEPT ![p] = "Absent"]
               /\ profRole' = [profRole EXCEPT ![p] = NoRole]
    /\ UNCHANGED <<appStatus, caller, rvars, dpc, dlocals, ret, dhist,
                   lastDeleteApp, target, prevAbsent, bhist>>

EnvStep == EnvApp \/ EnvProfile

\* ------------------------------------------- EC2Manager: unused key pairs
Keys == 1 .. NumKeys

\* line 52: instance['KeyName']; an instance launched without a key pair has
\* no such entry, written here as the name 0.
NoKeyName == 0

Instances == [KeyName : Keys \cup {NoKeyName}]

\* response['Reservations'] of describe_instances (lines 123-133): a list of
\* reservations, each with the list of the instances launched by one request.
InstanceLists == UNION {[1 .. m -> Instances] : m \in 1 .. MaxInstances}
ReservationAnswers ==
    UNION {[1 .. n -> InstanceLists] : n \in 0 .. MaxReservations}

\* lines 56-63: list_key_pairs(): the set of the KeyName of every key pair.
ListKeyPairs == keyPairs

\* line 51: [instance['Instances'][0] for instance in ...['Reservations']]
FirstInstances == [i \in DOMAIN reservations |-> reservations[i][1]]

\* line 52: [instance['KeyName'] for instance in instances] raises KeyError
\* when one of them has no KeyName.
KeyNameMissing ==
    \E i \in DOMAIN FirstInstances : FirstInstances[i].KeyName = NoKeyName

\* lines 52, 54: set(key_pairs_using)
KeyPairsUsing == {FirstInstances[i].KeyName : i \in DOMAIN FirstInstances}

\* line 54: return key_pairs_total - set(key_pairs_using)
UnusedKeyPairs == ListKeyPairs \ KeyPairsUsing

\* line 36 (and 44-54): key_pairs_redundant = self.list_unused_key_pairs(),
\* outside the try of line 37: a KeyError leaves delete_unused_key_pairs.
ListUnusedKeyPairs ==
    /\ kpc = "list_unused"
    /\ IF KeyNameMissing
          THEN /\ kpc' = "raised"
               /\ UNCHANGED <<key_pairs_redundant, pendingKeys>>
          ELSE /\ kpc' = "delete_loop"
               /\ key_pairs_redundant' = UnusedKeyPairs
               /\ pendingKeys' = UnusedKeyPairs
    /\ UNCHANGED <<keyPairs, reservations, deletedKeys, svars>>

\* What cli.delete_key_pair answers: EC2 deletes a key pair whether or not an
\* instance names it, or refuses the request.
CliDeleteKeyPairAnswers == {"ok", "UnauthorizedOperation"}

\* lines 38-42: the next key pair of the set (in the set's order) is deleted;
\* an exception ends the loop and is printed.
DeleteKeyPair ==
    /\ kpc = "delete_loop"
    /\ \E key_pair \in pendingKeys :
         \E answer \in CliDeleteKeyPairAnswers :
            IF answer = "ok"
               THEN /\ keyPairs' = keyPairs \ {key_pair}
                    /\ deletedKeys' = deletedKeys \cup {key_pair}
                    /\ pendingKeys' = pendingKeys \ {key_pair}
                    /\ kpc' = kpc
               ELSE /\ kpc' = "done"
                    /\ pendingKeys' = {}
                    /\ UNCHANGED <<keyPairs, deletedKeys>>
    /\ UNCHANGED <<reservations, key_pairs_redundant, svars>>

\* line 38: the for loop is exhausted.
FinishDeleteUnusedKeyPairs ==
    /\ kpc = "delete_loop"
    /\ pendingKeys = {}
    /\ kpc' = "done"
    /\ UNCHANGED <<keyPairs, reservations, key_pairs_redundant, pendingKeys,
                   deletedKeys, svars>>

\* ------------------------------------------------------------ specification
ProgramStep == DeleteStep \/ RecreateStep

Next == ProgramStep \/ CallerStep \/ EnvStep

Spec == Init /\ [][Next]_vars

\* The teardown alone: the user's delete_user_profile calls and the control
\* plane.  One thread runs the manager: while a call is in progress its next
\* statement is eventually executed.  The control plane owes nothing.
TeardownNext ==
    \/ DeleteStep
    \/ CallDeleteUserProfile
    \/ ReturnDeleteUserProfile
    \/ EnvStep

FairTeardownSpec == Init /\ [][TeardownNext]_vars /\ WF_vars(DeleteStep)

\* delete_unused_key_pairs() is called on an account with any set of key
\* pairs and any describe_instances answer.
KeyPairInit ==
    /\ SagemakerInit
    /\ kpc = "list_unused"
    /\ keyPairs \in SUBSET Keys
    /\ reservations \in ReservationAnswers
    /\ key_pairs_redundant = {}
    /\ pendingKeys = {}
    /\ deletedKeys = {}

KeyPairNext ==
    \/ ListUnusedKeyPairs
    \/ DeleteKeyPair
    \/ FinishDeleteUnusedKeyPairs

KeyPairSpec == KeyPairInit /\ [][KeyPairNext]_vars

\* ------------------------------------------------------------------- claims
Listed == {apps[i] : i \in DOMAIN apps}

InPolling == dpc \in {"poll_check", "poll_describe", "sleep"}

\* C1: the parent delete request is issued only when the last status that
\* describe_app answered for every app of the list_apps answer is terminal
\* (Deleted or Failed).
C1_ParentDeleteOnlyAfterConvergence ==
    parentDeletes > 0 => \A a \in Listed : obs[a] \in TerminalStatuses

\* A parent delete issued for a profile with two apps, one of them Failed,
\* after a delete request and at least one full tick with a sleep.
C1_Witness ==
    /\ parentDeletes > 0
    /\ Len(apps) >= 2
    /\ "delete_app" \in issued
    /\ elapsed_secs >= SleepSecs
    /\ \E a \in Listed : obs[a] = "Failed"

\* C2: the polling phase always ends: a call that polls eventually returns or
\* raises, also when an app never becomes Deleted or Failed.
C2_PollingTerminates == InPolling ~> (dpc \in {"returned", "raised"})

\* C3: once every app of the profile is in a terminal status (Deleted or
\* Failed) the polling loop is left and the parent delete request is issued,
\* unless a describe_app raises; no call issues a second parent delete.
C3_ConvergedReachesParentDelete ==
    /\ [](parentDeletes <= 1)
    /\ (InPolling /\ \A a \in Listed : appStatus[a] \in TerminalStatuses)
          ~> (parentDeletes = 1 \/ (dpc = "raised" /\ ret.site = "describe_app"))

\* The parent delete issued once, with an app that ended Failed.
C3_Witness ==
    /\ parentDeletes = 1
    /\ dpc = "returned"
    /\ Len(apps) >= 2
    /\ \E a \in Listed : obs[a] = "Failed"
    /\ \E a \in Listed : obs[a] = "Deleted"

\* C4: a describe_app that answers ResourceNotFound in the polling phase
\* counts as Deleted: it never ends delete_user_profile with an exception.
C4_NotFoundWhilePollingIsDeleted ==
    ~(dpc = "raised" /\ ret.site = "describe_app" /\ ret.exc = "ResourceNotFound")

\* C5: delete_user_profile for a profile that does not exist returns normally
\* and requests nothing but the describe_user_profile that found it absent:
\* no list_apps, describe_app, delete_app or parent delete, so the remote
\* state is as it was; the same holds for a second call.
C5_AbsentProfileIsNoOp ==
    (entryStatus = "Absent" /\ dpc # "describe_user_profile") =>
        /\ dpc = "returned"
        /\ ret.kind = "absent"
        /\ issued = {"describe_user_profile"}
        /\ parentDeletes = 0

\* The second call in a row that finds the profile absent.
C5_Witness ==
    /\ top = "delete"
    /\ calls = 2
    /\ prevAbsent
    /\ entryStatus = "Absent"
    /\ dpc = "returned"

\* C6: when the profile existed at line 64 and is gone at line 94, the
\* ResourceNotFound answer to the parent delete is a success, not an
\* exception of delete_user_profile.
C6_ParentDeleteIsIdempotent ==
    (parentDeletes > 0 /\ entryStatus # "Absent") =>
        ~(dpc = "raised" /\ ret.site = "delete_user_profile"
                         /\ ret.exc = "ResourceNotFound")

\* C7: delete_app returns normally only when the client accepted the request
\* or answered that the app is absent or already being deleted; any other
\* failure is raised to the caller.
C7_DeleteAppPropagatesOtherFailures ==
    lastDeleteApp \in {"none", "ok", "ResourceNotFound", "ResourceInUse"}

\* C8: recreate_all_user_profiles issues a create request only for a profile
\* whose teardown ended with the parent deleted or already absent.
C8_CreateOnlyAfterTeardown ==
    \A i \in DOMAIN created : created[i].UserProfileName \in tornDown

\* C9: a create request rejected for one profile, after its teardown
\* succeeded, does not end the batch: when recreate_all_user_profiles is over,
\* delete_user_profile has been called for every profile of the snapshot.
C9_FailureDoesNotAbortBatch ==
    (/\ rpc = "raised"
     /\ Len(user_profiles) = Len(listing)
     /\ Len(created) = idx
     /\ created[idx].UserProfileName \in tornDown) =>
        \A j \in DOMAIN user_profiles :
            user_profiles[j].UserProfileName \in attempted

CreatesFor(n) == {i \in DOMAIN created : created[i].UserProfileName = n}

\* C10: every create request carries the name and the execution role of an
\* entry of the snapshot, no profile gets two, and a profile whose teardown
\* succeeded and whose turn is over got exactly one.
C10_OneCreateFromSnapshot ==
    rpc \in {"loop", "in_delete", "wait", "create", "done", "raised"} =>
        /\ \A i \in DOMAIN created :
              \E j \in DOMAIN user_profiles : created[i] = user_profiles[j]
        /\ \A j \in DOMAIN user_profiles :
              /\ Cardinality(CreatesFor(user_profiles[j].UserProfileName)) <= 1
              /\ (j < idx /\ user_profiles[j].UserProfileName \in tornDown) =>
                    Cardinality(CreatesFor(user_profiles[j].UserProfileName)) = 1

\* A batch over two profiles, both torn down and recreated.
C10_Witness ==
    /\ rpc = "done"
    /\ Len(created) >= 2
    /\ \A i \in DOMAIN created :
          /\ created[i].UserProfileName \in tornDown
          /\ profStatus[created[i].UserProfileName] = "InService"

\* C12: a delete request that the client refuses (the app is there, the
\* request is rejected) does not end the request phase: the step that issues
\* a delete request, whatever its answer, goes on to the describe_app of the
\* next app of the list, or, after the last app, to the polling loop, and the
\* list of apps that the polling loop iterates over keeps every app.
C12_RefusedDeleteRequestDoesNotAbort ==
    [][(dpc = "req_delete" /\ dpc' # "req_delete") =>
          /\ apps' = apps
          /\ IF k < Len(apps)
                THEN dpc' = "req_describe" /\ k' = k + 1
                ELSE dpc' = "poll_check"]_vars

\* A tick of the polling loop is complete; the first of two apps, whose delete
\* request was refused, was polled and is still InService, and the second app
\* got its delete request.
C12_Witness ==
    /\ dpc = "sleep"
    /\ Len(apps) = 2
    /\ "delete_app" \in issued
    /\ obs[apps[1]] = "InService"
    /\ appStatus[apps[1]] = "InService"
    /\ obs[apps[2]] \in {"Deleting", "Deleted"}

\* The statuses (and the ResourceNotFound answer) of describe_app at line 73
\* after which line 75 is not reached.
SkippedAtRequest == {"Deleted", "Deleting", "NotFound", "none"}

\* C13 as stated: delete_app (line 75) is called only for an app that line 73
\* observed in a status that is neither terminal (Deleted, Failed) nor
\* Deleting.
C13_TerminalAppsGetNoDeleteRequest ==
    dpc = "req_delete" => obs[apps[k]] \notin TerminalStatuses \cup {"Deleting"}

\* C13, amended: delete_app (line 75) is called only for an app that line 73
\* observed in a status other than Deleted and Deleting (an app observed as
\* Failed does get a delete request), and a request phase in which every app
\* was observed as Deleted, Deleting or absent issues no delete request.
C13_DeletedAndDeletingGetNoDeleteRequest ==
    /\ dpc = "req_delete" => obs[apps[k]] \notin SkippedAtRequest
    /\ ("delete_app" \in issued /\ "poll_describe_app" \notin issued) =>
          \E a \in Listed : obs[a] \notin SkippedAtRequest

\* The request phase is over for two apps, one observed Deleted and one
\* Deleting, and no delete request was issued.
C13_Witness ==
    /\ dpc = "poll_check"
    /\ Len(apps) = 2
    /\ obs[apps[1]] = "Deleted"
    /\ obs[apps[2]] = "Deleting"
    /\ issued = {"describe_user_profile", "list_apps", "describe_app"}

InRequestPhase == dpc \in {"req_describe", "req_delete"}

\* C14: the request phase is over before the polling phase starts: while
\* delete_user_profile is in the loop of lines 71-80, where delete_app is
\* called, no describe_app of the polling loop (line 87) has been issued in
\* this call, and when the call is in the polling loop its position in the
\* list belongs to the polling loop alone.
C14_RequestPhasePrecedesPolling ==
    /\ InRequestPhase => "poll_describe_app" \notin issued
    /\ "poll_describe_app" \in issued =>
          dpc \in {"poll_check", "poll_describe", "sleep", "parent_delete",
                   "returned", "raised"}

\* The second tick of a polling phase that followed delete requests.
C14_Witness ==
    /\ dpc = "poll_describe"
    /\ k = 2
    /\ elapsed_secs >= SleepSecs
    /\ "delete_app" \in issued
    /\ "poll_describe_app" \in issued
    /\ appStatus[apps[2]] = "Deleting"

\* The step is line 87 for apps[k]: the only steps that leave the position
\* (poll_describe, k).
PollStep == dpc = "poll_describe" /\ (k' # k \/ dpc' # dpc)

\* C15 as stated: from the second tick on, line 87 is not executed for an app
\* that the previous tick observed as Deleted or Failed.
C15_TerminalAppsAreNotRequeried ==
    [][PollStep => ~(elapsed_secs >= SleepSecs /\ obs[apps[k]] \in TerminalStatuses)]_vars

\* C15, amended: every tick of the polling loop queries every app of the
\* list, those already observed as Deleted or Failed included: a tick starts
\* at the first app, each of its steps is a describe_app of the app at the
\* current position, whose answer (ResourceNotFound for an app that is gone)
\* replaces what was observed before, and goes on to the next position, and
\* delete_cnt is counted anew from these answers.
C15_EveryTickQueriesEveryApp ==
    /\ [][(dpc = "poll_check" /\ dpc' = "poll_describe") =>
             (k' = 1 /\ delete_cnt' = 0)]_vars
    /\ [][PollStep =>
             IF appStatus[apps[k]] = "Absent"
                THEN dpc' = "raised" /\ obs'[apps[k]] = "NotFound"
                ELSE /\ obs'[apps[k]] = appStatus[apps[k]]
                     /\ IF k < Len(apps)
                           THEN dpc' = "poll_describe" /\ k' = k + 1
                           ELSE dpc' = "sleep"]_vars
    /\ [](dpc = "sleep" =>
             delete_cnt = Cardinality({i \in DOMAIN apps :
                                          obs[apps[i]] \in TerminalStatuses}))

\* The second tick has queried the first app again, which the first tick had
\* already observed as terminal, and counted it; the second app is not
\* terminal.
C15_Witness ==
    /\ dpc = "poll_describe"
    /\ k = 2
    /\ elapsed_secs >= SleepSecs
    /\ delete_cnt = 1
    /\ obs[apps[1]] \in TerminalStatuses
    /\ obs[apps[2]] \notin TerminalStatuses

\* The names of the profiles that list_user_profiles() returns.
ListedNames ==
    {ListUserProfiles[i].UserProfileName : i \in DOMAIN ListUserProfiles}

\* C16: after a teardown that ended with the parent delete accepted,
\* create_user_profile (line 221) is not issued for a name that
\* list_user_profiles() still returns: recreate_all_user_profiles waits at
\* lines 216-217 until the deleted profile has left the listing.
C16_NoCreateWhileListed ==
    [][(Len(created') > Len(created) /\ CreateName(idx) \in tornDown) =>
          CreateName(idx) \notin ListedNames]_vars

\* The key pairs that some instance of the describe_instances answer names.
AttachedKeys ==
    UNION {{reservations[i][j].KeyName : j \in DOMAIN reservations[i]} :
              i \in DOMAIN reservations} \ {NoKeyName}

\* C11: list_unused_key_pairs returns exactly the key pairs of the account
\* that no instance of the describe_instances answer names, reservations with
\* more than one instance included, and delete_unused_key_pairs deletes no
\* key pair that an instance names.
C11_UnusedKeyPairsAreUnattached ==
    /\ kpc \in {"delete_loop", "done"} =>
          key_pairs_redundant = (keyPairs \cup deletedKeys) \ AttachedKeys
    /\ deletedKeys \cap AttachedKeys = {}
====
